---- MODULE Spec2Model ----
(***************************************************************************)
(* State-machine model of transfer.ts: the module's top-level statements,  *)
(* genericMessage(), waitUntilBridged() and the setInterval status         *)
(* callback.  Every action is one event-loop step: the completion of an    *)
(* awaited operation together with the synchronous code that follows it    *)
(* up to the next await.                                                   *)
(***************************************************************************)
EXTENDS Integers, Sequences, FiniteSets, TLC

(* ------------------------------------------------------------------ *)
(* Bounds of the model                                                 *)
(* ------------------------------------------------------------------ *)

\* largest value of the `attempts` parameter explored besides the default
MaxAttempts == 1

\* number of status queries the interval may issue in a modelled run
MaxQueries == 4

\* number of status queries that may be awaiting their response at once
MaxInflight == 2

(* ------------------------------------------------------------------ *)
(* Program constants                                                   *)
(* ------------------------------------------------------------------ *)

\* waitUntilBridged(valueBefore, intervalDuration = 15000, attempts = 8)
DefaultIntervalDuration == 15000
DefaultAttempts == 8

\* setInterval(..., 5000)
StatusInterval == 5000

(* ------------------------------------------------------------------ *)
(* BigNumber (ethers): an unsigned 256-bit value.  The model keeps a   *)
(* value as two limbs <<hi, lo>> of LimbBits bits each, standing for   *)
(* hi * 2^LimbBits + lo, which is wide enough to hold values on both   *)
(* sides of Number.MAX_SAFE_INTEGER = 2^53 - 1.                        *)
(* ------------------------------------------------------------------ *)

LimbBits == 27
SafeHi == 2 ^ (53 - LimbBits)

BN(hi, lo) == <<hi, lo>>

\* BigNumber.eq: equality of the values, limb by limb
BNeq(a, b) == a[1] = b[1] /\ a[2] = b[2]

\* BigNumber.toNumber: throws (overflow) unless the value fits in 53 bits
ToNumberOk(v) == v[1] < SafeHi

\* values the destination contract's number() is taken to return
Values == { BN(0, 104), BN(0, 105), BN(SafeHi, 0) }

NoValue == <<>>

\* transaction hashes wallet.sendTransaction may return
Hashes == { "0x25", "0x7f" }
NoHash == "none"

\* result sets of getTransferStatusData: sequences of status records
Rec(s) == [status |-> s]
Responses ==
  { <<>>,
    << Rec("pending") >>,
    << Rec("executed") >>,
    << Rec("pending"), Rec("executed") >>,
    << Rec("executed"), Rec("pending") >> }

Fail == "fail"

\* outcomes of one counterContract.number() call: a value, or a rejection
ReadResults ==
  { [ok |-> TRUE, val |-> v] : v \in Values } \cup { [ok |-> FALSE, val |-> NoValue] }

NoResult == [ok |-> TRUE, data |-> << Rec("none") >>]

\* outcomes of one getStatus call: a result set, or a rejection
StatusResults ==
  { [ok |-> TRUE, data |-> d] : d \in Responses } \cup { [ok |-> FALSE, data |-> <<>>] }

AttemptsDomain == (0 .. MaxAttempts) \cup { DefaultAttempts }

VARIABLES
  privateKey,          \* whether process.env.PRIVATE_KEY is set
  proc,                \* the process: running, or how it ended
  pc,                  \* position of the top level / genericMessage
  contractValueBefore, \* the baseline read at line 81
  txHash,              \* response.hash
  submissions,         \* transactions broadcast by wallet.sendTransaction
  feeQuotes,           \* getFee calls made
  destReads,           \* counterContract.number() calls made, all callers
  attempts,            \* waitUntilBridged's parameter
  intervalDuration,    \* waitUntilBridged's parameter
  wpc,                 \* position of waitUntilBridged
  i,                   \* waitUntilBridged's attempt counter
  contractValueAfter,  \* waitUntilBridged's last read
  outcome,             \* what waitUntilBridged has logged
  reads,               \* reads made by waitUntilBridged
  sleeps,              \* sleeps completed by waitUntilBridged
  readLog,             \* the results of waitUntilBridged's reads, in order
  id,                  \* whether the setInterval timer is installed
  inflight,            \* status queries awaiting their response
  statusQueries,       \* getStatus calls made
  reports,             \* lines logged by the status callback
  lastResult,          \* the getStatus result handled last
  finalValue           \* the value read at line 134

mainVars == << privateKey, pc, contractValueBefore, txHash,
               submissions, feeQuotes, finalValue >>
watchVars == << attempts, intervalDuration, wpc, i, contractValueAfter,
                outcome, reads, sleeps, readLog >>
pollVars == << id, inflight, statusQueries, reports, lastResult >>
vars == << mainVars, watchVars, pollVars, proc, destReads >>

\* The environment may or may not hold PRIVATE_KEY.  genericMessage calls
\* waitUntilBridged with its default attempts; the smaller values of the
\* parameter are explored as well.
Init ==
  /\ privateKey \in BOOLEAN
  /\ proc = "running"
  /\ pc = "load"
  /\ contractValueBefore = NoValue
  /\ txHash = NoHash
  /\ submissions = 0
  /\ feeQuotes = 0
  /\ destReads = 0
  /\ attempts \in AttemptsDomain
  /\ intervalDuration = DefaultIntervalDuration
  /\ wpc = "idle"
  /\ i = 0
  /\ contractValueAfter = NoValue
  /\ outcome = "none"
  /\ reads = 0
  /\ sleeps = 0
  /\ readLog = <<>>
  /\ id = FALSE
  /\ inflight = <<>>
  /\ statusQueries = 0
  /\ reports = <<>>
  /\ lastResult = NoResult
  /\ finalValue = NoValue

(* ------------------------------------------------------------------ *)
(* Process-level outcomes                                              *)
(* ------------------------------------------------------------------ *)

\* genericMessage().finally(() => {}) passes a rejection on, and nothing
\* handles it.  What the runtime then does depends on its unhandled-rejection
\* mode, which the repository does not fix: it either ends the process with a
\* failure status ("crashed"), or only warns, and the process then lives as
\* long as a timer is installed and otherwise ends with nothing left to run
\* ("drained").
UnhandledRejection(timerInstalled) ==
  /\ pc' = "rejected"
  /\ proc' \in { "crashed", IF timerInstalled THEN "running" ELSE "drained" }

(* ------------------------------------------------------------------ *)
(* Top level and genericMessage up to the submission                   *)
(* ------------------------------------------------------------------ *)

\* lines 12-46 and 138: without PRIVATE_KEY the module throws at line 17,
\* before any provider, contract or wallet exists; with it, the module
\* builds them and calls genericMessage, which starts the baseline read.
\* (variant: the test of lines 16-18 left out)
LoadMutNoCheck ==
  /\ proc = "running" /\ pc = "load"
  /\ pc' = "readBefore"
  /\ UNCHANGED << proc, privateKey, contractValueBefore, txHash,
                  submissions, feeQuotes, finalValue, destReads,
                  watchVars, pollVars >>
Load ==
  /\ proc = "running" /\ pc = "load"
  /\ IF privateKey
       THEN pc' = "readBefore" /\ proc' = proc
       ELSE pc' = "loadFailed" /\ proc' = "crashed"
  /\ UNCHANGED << privateKey, contractValueBefore, txHash,
                  submissions, feeQuotes, finalValue, destReads,
                  watchVars, pollVars >>

\* line 81: const contractValueBefore = await counterContract.number()
ReadBefore ==
  /\ proc = "running" /\ pc = "readBefore"
  /\ destReads' = destReads + 1
  /\ \E r \in ReadResults :
       IF r.ok
         THEN contractValueBefore' = r.val /\ pc' = "init" /\ proc' = proc
         ELSE UnhandledRejection(FALSE) /\ UNCHANGED contractValueBefore
  /\ UNCHANGED << privateKey, txHash, submissions, feeQuotes,
                  finalValue, watchVars, pollVars >>

\* lines 85-99: messageTransfer.init and createGenericMessageTransfer
InitTransfer ==
  /\ proc = "running" /\ pc = "init"
  /\ \E ok \in BOOLEAN :
       IF ok THEN pc' = "getFee" /\ proc' = proc
             ELSE UnhandledRejection(FALSE)
  /\ UNCHANGED << privateKey, contractValueBefore, txHash,
                  submissions, feeQuotes, finalValue, destReads,
                  watchVars, pollVars >>

\* line 101: const fee = await messageTransfer.getFee(transfer)
GetFee ==
  /\ proc = "running" /\ pc = "getFee"
  /\ feeQuotes' = feeQuotes + 1
  /\ \E ok \in BOOLEAN :
       IF ok THEN pc' = "build" /\ proc' = proc
             ELSE UnhandledRejection(FALSE)
  /\ UNCHANGED << privateKey, contractValueBefore, txHash,
                  submissions, finalValue, destReads, watchVars, pollVars >>

\* lines 103-106: await messageTransfer.buildTransferTransaction(transfer, fee)
BuildTransaction ==
  /\ proc = "running" /\ pc = "build"
  /\ \E ok \in BOOLEAN :
       IF ok THEN pc' = "send" /\ proc' = proc
             ELSE UnhandledRejection(FALSE)
  /\ UNCHANGED << privateKey, contractValueBefore, txHash,
                  submissions, feeQuotes, finalValue, destReads,
                  watchVars, pollVars >>

\* Whether the status interval is installed by the code that follows the
\* submission (lines 111-115).  It is not: line 115 awaits waitUntilBridged
\* first, and setInterval is line 117.
\* (variant: setInterval placed before the await of line 115)
IntervalAtSubmissionMutTrue == TRUE
IntervalAtSubmission == FALSE

\* line 108 when wallet.sendTransaction rejects (signing or broadcast):
\* nothing catches it, genericMessage rejects and line 111 is not reached.
\* (variants: the broadcast made again after an error; the error logged and
\* the run continued without a hash)
SendFailedMutResubmit ==
  /\ submissions' = submissions + 1
  /\ UNCHANGED << pc, proc, txHash, wpc, id >>
SendFailedMutProceed ==
  /\ pc' = "watch" /\ proc' = proc
  /\ wpc' = "sleep"
  /\ UNCHANGED << txHash, submissions, id >>
SendFailed ==
  /\ UnhandledRejection(FALSE)
  /\ UNCHANGED << txHash, submissions, wpc, id >>

\* lines 108-115: await wallet.sendTransaction(...), then the call of
\* waitUntilBridged(contractValueBefore), which runs up to its first sleep.
SendTransaction ==
  /\ proc = "running" /\ pc = "send"
  /\ \E r \in Hashes \cup { Fail } :
       IF r = Fail
         THEN SendFailed
         ELSE /\ txHash' = r
              /\ submissions' = submissions + 1
              /\ pc' = "watch" /\ proc' = proc
              /\ wpc' = "sleep"
              /\ id' = IntervalAtSubmission
  /\ UNCHANGED << privateKey, contractValueBefore, feeQuotes,
                  finalValue, destReads, attempts, intervalDuration, i,
                  contractValueAfter, outcome, reads, sleeps, readLog,
                  inflight, statusQueries, reports, lastResult >>

(* ------------------------------------------------------------------ *)
(* waitUntilBridged (lines 51-77)                                      *)
(* ------------------------------------------------------------------ *)

\* line 59: await sleep(intervalDuration); the timer fires and the read of
\* line 60 is started.
WatcherSleep ==
  /\ proc = "running" /\ wpc = "sleep"
  /\ sleeps' = sleeps + 1
  /\ wpc' = "read"
  /\ UNCHANGED << mainVars, pollVars, proc, destReads, attempts,
                  intervalDuration, i, contractValueAfter, outcome, reads,
                  readLog >>

\* line 61: if (!contractValueAfter.eq(valueBefore))
\* (variants: the comparison dropped; the negation dropped)
ChangedMutAlways(after, before) == TRUE
ChangedMutInverted(after, before) == BNeq(after, before)
Changed(after, before) == ~ BNeq(after, before)

\* line 71: if (i > attempts)
\* (variants: off by one in either direction)
ExhaustedMutLate(n, max) == n > max + 1
ExhaustedMutGeq(n, max) == n >= max
Exhausted(n, max) == n > max

\* lines 117-135, run when `await waitUntilBridged(...)` resumes normally:
\* setInterval installs the status timer and the final read is started.
AfterWatch ==
  /\ id' = TRUE
  /\ pc' = "final"
  /\ proc' = proc

\* lines 72-74: the timeout line is logged and the loop left by break, so
\* waitUntilBridged resolves, as it does after the success lines.
\* (variant: the timeout raised as an error)
TimedOutMutThrow ==
  /\ outcome' = "timeout"
  /\ wpc' = "rejected"
  /\ UnhandledRejection(id)
  /\ id' = id
TimedOut ==
  /\ outcome' = "timeout"
  /\ wpc' = "resolved"
  /\ AfterWatch

\* lines 70-75: i++, then the test of the attempt counter
CountAttempt ==
  /\ i' = i + 1
  /\ IF Exhausted(i + 1, attempts)
       THEN TimedOut
       ELSE /\ outcome' = outcome
            /\ wpc' = "sleep"
            /\ UNCHANGED << pc, proc, id >>

\* line 60 when fetchAfterValue rejects: nothing in the loop catches it, so
\* waitUntilBridged rejects, and with it genericMessage at line 115.
\* (variant: the rejection caught and counted as an unchanged value)
WatcherReadFailedMutSwallow ==
  /\ CountAttempt
  /\ UNCHANGED contractValueAfter
WatcherReadFailed ==
  /\ wpc' = "rejected"
  /\ UnhandledRejection(id)
  /\ UNCHANGED << contractValueAfter, outcome, i, id >>

\* lines 60-76: the read of line 60 completes and the loop body runs to the
\* next sleep, to a break (the promise resolves and genericMessage goes on
\* to line 117) or to a throw (the promise rejects, and so does
\* genericMessage's at line 115).
WatcherRead ==
  /\ proc = "running" /\ wpc = "read"
  /\ reads' = reads + 1
  /\ destReads' = destReads + 1
  /\ \E r \in ReadResults :
       /\ readLog' = Append(readLog, r)
       /\ IF ~ r.ok
            THEN WatcherReadFailed
            ELSE
              /\ contractValueAfter' = r.val
              /\ IF Changed(r.val, contractValueBefore)
                   THEN \* lines 62-68
                        /\ outcome' = "success"
                        /\ i' = i
                        /\ IF ToNumberOk(r.val)
                             THEN wpc' = "resolved" /\ AfterWatch
                             ELSE \* toNumber() at line 65 throws
                                  /\ wpc' = "rejected"
                                  /\ UnhandledRejection(id)
                                  /\ id' = id
                   ELSE CountAttempt
  /\ UNCHANGED << privateKey, contractValueBefore, txHash,
                  submissions, feeQuotes, finalValue, attempts,
                  intervalDuration, sleeps, inflight, statusQueries,
                  reports, lastResult >>

\* line 134-135: const finalValue = await fetchAfterValue()
\* (variant: the value the watcher saw reported, without another read)
FinalReadMutReuse ==
  /\ proc = "running" /\ pc = "final"
  /\ finalValue' = contractValueAfter
  /\ pc' = "resolved"
  /\ UNCHANGED << privateKey, contractValueBefore, txHash, proc, destReads,
                  submissions, feeQuotes, watchVars, pollVars >>
FinalRead ==
  /\ proc = "running" /\ pc = "final"
  /\ destReads' = destReads + 1
  /\ \E r \in ReadResults :
       IF r.ok
         THEN finalValue' = r.val /\ pc' = "resolved" /\ proc' = proc
         ELSE UnhandledRejection(id) /\ UNCHANGED finalValue
  /\ UNCHANGED << privateKey, contractValueBefore, txHash,
                  submissions, feeQuotes, watchVars, pollVars >>

(* ------------------------------------------------------------------ *)
(* The status interval (lines 117-133)                                 *)
(* ------------------------------------------------------------------ *)

\* the hash the callback passes to getStatus: response.hash
QueriedHash == txHash

\* line 118: the timer fires and the callback calls getStatus(response.hash);
\* it does not wait for earlier queries to be answered.
\* (variant: a tick skipped while a query is unanswered)
StatusTickMutSerial ==
  /\ proc = "running" /\ id
  /\ inflight = <<>>
  /\ statusQueries < MaxQueries
  /\ statusQueries' = statusQueries + 1
  /\ inflight' = << [n |-> statusQueries + 1, hash |-> QueriedHash] >>
  /\ UNCHANGED << mainVars, watchVars, proc, destReads, id, reports,
                  lastResult >>
StatusTick ==
  /\ proc = "running" /\ id
  /\ statusQueries < MaxQueries
  /\ Len(inflight) < MaxInflight
  /\ statusQueries' = statusQueries + 1
  /\ inflight' = Append(inflight, [n |-> statusQueries + 1, hash |-> QueriedHash])
  /\ UNCHANGED << mainVars, watchVars, proc, destReads, id, reports,
                  lastResult >>

RemoveAt(s, k) == [ j \in 1 .. (Len(s) - 1) |-> IF j < k THEN s[j] ELSE s[j + 1] ]

\* line 120: if (data[0])
HasFirst(data) == Len(data) >= 1

\* line 122: data[0].status == "executed"
\* (variants: the terminal status never recognised; every status taken as
\* terminal)
IsTerminalMutNever(status) == FALSE
IsTerminalMutAny(status) == TRUE
IsTerminal(status) == status = "executed"

NotIndexedLine == "Waiting for the TX to be indexed"
ErrorLine == "error:"

\* lines 130-132: .catch((e) => { console.log("error:", e) })
\* (variant: a .catch handler that gives up)
StatusQueryFailedMutFatal ==
  /\ reports' = Append(reports, ErrorLine)
  /\ id' = FALSE
  /\ proc' = "crashed"
StatusQueryFailed ==
  /\ reports' = Append(reports, ErrorLine)
  /\ UNCHANGED << id, proc >>

\* lines 119-132: the promise of one outstanding getStatus call settles and
\* its .then or .catch handler runs.
StatusResponse ==
  /\ proc = "running"
  /\ \E k \in 1 .. Len(inflight), r \in StatusResults :
       /\ inflight' = RemoveAt(inflight, k)
       /\ lastResult' = r
       /\ IF ~ r.ok
            THEN StatusQueryFailed
            ELSE IF HasFirst(r.data)
              THEN /\ reports' = Append(reports, r.data[1].status)
                   /\ IF IsTerminal(r.data[1].status)
                        THEN id' = FALSE /\ proc' = "exit0"
                        ELSE UNCHANGED << id, proc >>
              ELSE /\ reports' = Append(reports, NotIndexedLine)
                   /\ UNCHANGED << id, proc >>
  /\ UNCHANGED << mainVars, watchVars, destReads, statusQueries >>

Next ==
  \/ Load
  \/ ReadBefore
  \/ InitTransfer
  \/ GetFee
  \/ BuildTransaction
  \/ SendTransaction
  \/ WatcherSleep
  \/ WatcherRead
  \/ FinalRead
  \/ StatusTick
  \/ StatusResponse

Spec == Init /\ [][Next]_vars

\* Timers fire and a started read settles (with a value or a rejection), so
\* an enabled step of waitUntilBridged is eventually taken.
FairSpec == Spec /\ WF_vars(WatcherSleep) /\ WF_vars(WatcherRead)

\* In addition the final read settles, the status interval keeps firing and
\* every getStatus promise settles.
LiveSpec ==
  /\ FairSpec
  /\ WF_vars(FinalRead)
  /\ WF_vars(StatusTick)
  /\ WF_vars(StatusResponse)

(* ------------------------------------------------------------------ *)
(* Derived quantities used by the properties                           *)
(* ------------------------------------------------------------------ *)

\* the watcher is between its call and its end
Watching == wpc \in { "sleep", "read" }

\* the watcher's promise has settled
WatchEnded == wpc \in { "resolved", "rejected" }

\* read k of the watcher succeeded and returned the baseline
EqualRead(k) == readLog[k].ok /\ readLog[k].val = contractValueBefore

\* read k of the watcher succeeded and returned another value
ChangedRead(k) == readLog[k].ok /\ readLog[k].val # contractValueBefore

\* every read the watcher has made succeeded and returned the baseline
AllEqual == \A k \in 1 .. Len(readLog) : EqualRead(k)

\* time the watcher has spent suspended
Elapsed == sleeps * intervalDuration

(* ------------------------------------------------------------------ *)
(* Properties                                                          *)
(* ------------------------------------------------------------------ *)

\* C1: one run of waitUntilBridged makes at most attempts + 1 reads of the
\* destination value and at most attempts + 1 sleeps, whatever the baseline
\* and whatever the reads return.
C1_ReadsBounded ==
  /\ reads <= attempts + 1
  /\ sleeps <= attempts + 1
  /\ Len(readLog) = reads

C1_Witness ==
  /\ attempts = DefaultAttempts
  /\ wpc = "resolved"
  /\ reads = DefaultAttempts + 1
  /\ sleeps = DefaultAttempts + 1

\* C2: when every read succeeds and returns the baseline, the watcher ends,
\* and it ends with the timeout report after exactly attempts + 1 reads; it
\* reports no success, raises no error, and does not go on for ever.
C2_UnchangedTimesOut ==
  /\ [](AllEqual /\ WatchEnded =>
          /\ wpc = "resolved"
          /\ outcome = "timeout"
          /\ reads = attempts + 1)
  /\ [](AllEqual => outcome # "success" /\ wpc # "rejected")
  /\ [](AllEqual /\ outcome = "timeout" => reads = attempts + 1)
  /\ (Watching ~> WatchEnded)

C2_Witness ==
  /\ attempts = DefaultAttempts
  /\ AllEqual
  /\ outcome = "timeout"
  /\ wpc = "resolved"
  /\ reads = 9

\* C3: whenever the watcher has reported success, the value its most recent
\* read returned differs from the baseline; no success report follows a read
\* that returned the baseline.
C3_SuccessOnlyOnChange ==
  outcome = "success" =>
    /\ reads >= 1
    /\ readLog[reads].ok
    /\ readLog[reads].val = contractValueAfter
    /\ contractValueAfter # contractValueBefore

C3_Witness ==
  /\ outcome = "success"
  /\ reads = 3
  /\ contractValueBefore = BN(0, 104)
  /\ contractValueAfter = BN(0, 105)

\* C4: when reads 1..k-1 return the baseline and read k returns another
\* value, the watcher reports success after exactly k reads and k sleeps,
\* makes no further read and reports no timeout.
C4_SuccessAtFirstChange ==
  /\ [](\A k \in 1 .. Len(readLog) :
          (ChangedRead(k) /\ \A j \in 1 .. (k - 1) : EqualRead(j)) =>
             /\ k <= attempts + 1
             /\ outcome = "success"
             /\ reads = k
             /\ sleeps = k
             /\ Elapsed = k * intervalDuration
             /\ ~ Watching)
  /\ [][outcome = "success" => reads' = reads /\ sleeps' = sleeps
                               /\ outcome' = "success"]_vars

C4_Witness ==
  /\ contractValueBefore = BN(0, 104)
  /\ Len(readLog) = 3
  /\ EqualRead(1) /\ EqualRead(2) /\ ChangedRead(3)
  /\ contractValueAfter = BN(0, 105)
  /\ outcome = "success"
  /\ intervalDuration = 15000
  /\ Elapsed = 45000

\* C5 as stated: the status interval runs while the watcher is still
\* sleeping or reading, its start not waiting for the watcher to end.
C5_Original ==
  (proc = "running" /\ Watching) => id

\* C5 (amended): the status interval is installed only once the watcher's
\* promise has resolved, so no status query is made while the watcher sleeps
\* or reads, and none at all when the watcher ends in an error; from then on
\* the interval runs alongside the final read.
C5_PollerAfterWatcher ==
  /\ (id \/ statusQueries > 0 \/ reports # <<>>) =>
        (wpc = "resolved" /\ pc \in { "final", "resolved", "rejected" })
  /\ (proc = "running" /\ wpc = "resolved") => id
  /\ wpc = "rejected" => (~ id /\ statusQueries = 0)

C5_Witness ==
  /\ wpc = "resolved"
  /\ pc = "final"
  /\ statusQueries >= 1
  /\ reports # <<>>
  /\ proc = "running"

\* the line expected in the log for a getStatus result
LineFor(r) ==
  IF ~ r.ok THEN ErrorLine
  ELSE IF r.data = <<>> THEN NotIndexedLine
  ELSE r.data[1].status

C7_ReadFailureRejects ==
  /\ [](\A k \in 1 .. Len(readLog) :
          ~ readLog[k].ok =>
             /\ k = Len(readLog)
             /\ reads = k
             /\ \A j \in 1 .. (k - 1) : EqualRead(j)
             /\ i = k - 1
             /\ outcome = "none"
             /\ wpc = "rejected"
             /\ pc = "rejected")
  /\ [][wpc = "rejected" =>
          reads' = reads /\ i' = i /\ outcome' = outcome
          /\ wpc' = "rejected"]_vars

C7_Witness ==
  /\ Len(readLog) = 2
  /\ EqualRead(1)
  /\ ~ readLog[2].ok
  /\ i = 1
  /\ wpc = "rejected"

\* C8: a failed status query does not stop the status interval: the step
\* that handles the failure leaves the interval installed and the process
\* running, and every query, before and after, carries the hash of the
\* submitted transaction.
C8_QueryFailureNonFatal ==
  /\ [][(reports' # reports /\ ~ lastResult'.ok) =>
          /\ id' /\ proc' = "running"
          /\ txHash' = txHash
          /\ reports' = Append(reports, ErrorLine)]_vars
  /\ [](\A k \in 1 .. Len(inflight) :
          inflight[k].hash = txHash /\ txHash \in Hashes)
  /\ []((proc = "running" /\ reports # <<>>
           /\ \A k \in 1 .. Len(reports) : reports[k] = ErrorLine) => id)

C8_Witness ==
  /\ Len(reports) >= 3
  /\ reports[1] = ErrorLine /\ reports[2] = ErrorLine
  /\ reports[3] = "pending"
  /\ inflight # <<>>
  /\ inflight[1].n = 4
  /\ inflight[1].hash = txHash
  /\ proc = "running"

\* C9: without PRIVATE_KEY the run ends in the configuration error with no
\* network activity at all: no destination read, no fee quote, no
\* submission and no status query.
C9_NoKeyNoNetwork ==
  ~ privateKey =>
    /\ destReads = 0 /\ feeQuotes = 0 /\ submissions = 0 /\ statusQueries = 0
    /\ txHash = NoHash /\ ~ id /\ wpc = "idle"
    /\ pc \in { "load", "loadFailed" }
    /\ (pc = "loadFailed" <=> proc = "crashed")
    /\ (pc = "load" <=> proc = "running")

C9_Witness ==
  ~ privateKey /\ pc = "loadFailed" /\ proc = "crashed"

\* C10 as stated: once the transfer is submitted the process ends only by
\* the status callback's exit on "executed".
C10_Original ==
  (submissions > 0 /\ proc # "running") =>
    /\ proc = "exit0"
    /\ reports # <<>>
    /\ reports[Len(reports)] = "executed"

\* C11: the transaction is submitted at most once, and exactly once in every
\* run that reaches polling; a failure of the fee quote, of the build or of
\* the signing and broadcast ends the run, with no retry and no second
\* submission, and nothing after the first submission submits again.
C11_SubmittedOnce ==
  /\ [](submissions <= 1 /\ feeQuotes <= 1)
  /\ []((wpc # "idle" \/ id \/ statusQueries > 0) => submissions = 1)
  /\ [][submissions' # submissions =>
          /\ pc = "send" /\ pc' = "watch"
          /\ submissions = 0 /\ submissions' = 1
          /\ feeQuotes = 1]_vars
  /\ [][(pc \in { "getFee", "build", "send" } /\ pc' # pc /\ pc' # "watch"
           /\ ~ (pc = "getFee" /\ pc' = "build")
           /\ ~ (pc = "build" /\ pc' = "send")) =>
          /\ pc' = "rejected"
          /\ proc' # "running"
          /\ submissions' = 0 /\ wpc' = "idle" /\ ~ id']_vars
  /\ [][pc = "rejected" =>
          pc' = "rejected" /\ submissions' = submissions
          /\ feeQuotes' = feeQuotes]_vars

C11_Witness ==
  /\ submissions = 1
  /\ statusQueries = MaxQueries
  /\ pc = "resolved"
  /\ proc = "running"

\* C12: no sleep or read of the watcher and no status query happens before
\* sendTransaction has returned a hash, and when the submission fails
\* neither the watcher nor the status interval ever starts.
C12_SubmissionFirst ==
  /\ (wpc # "idle" \/ sleeps > 0 \/ reads > 0 \/ id \/ statusQueries > 0
        \/ inflight # <<>> \/ reports # <<>>) =>
       /\ submissions = 1
       /\ txHash \in Hashes
       /\ pc \in { "watch", "final", "resolved", "rejected" }
  /\ (pc \in { "load", "loadFailed", "readBefore", "init", "getFee",
               "build", "send" }
        \/ submissions = 0) =>
       /\ txHash = NoHash
       /\ wpc = "idle" /\ sleeps = 0 /\ reads = 0
       /\ ~ id /\ statusQueries = 0

C12_Witness ==
  /\ pc = "rejected"
  /\ feeQuotes = 1
  /\ submissions = 0
  /\ contractValueBefore # NoValue
  /\ proc = "drained"

\* C13 as stated: with the defaults and a value that never changes, the
\* watcher has been suspended for 120000 ms, 8 poll intervals, when it
\* reports the timeout.
C13_Original ==
  (attempts = DefaultAttempts /\ AllEqual /\ outcome = "timeout") =>
    (sleeps = 8 /\ Elapsed = 120000)

\* C13 (amended): with the defaults and a value that never changes, the
\* watcher has been suspended for 135000 ms, 9 poll intervals, when it
\* reports the timeout: one sleep before each of its attempts + 1 reads.
C13_TimeoutElapsed ==
  /\ (attempts = DefaultAttempts /\ AllEqual /\ outcome = "timeout") =>
       (sleeps = 9 /\ reads = 9 /\ Elapsed = 135000)
  /\ outcome = "timeout" =>
       (sleeps = attempts + 1 /\ Elapsed = (attempts + 1) * intervalDuration)

C13_Witness ==
  /\ attempts = 8
  /\ intervalDuration = 15000
  /\ AllEqual
  /\ outcome = "timeout"
  /\ Elapsed = 135000

\* number of the watcher's reads so far that returned the baseline
EqualReads == Cardinality({ k \in 1 .. Len(readLog) : EqualRead(k) })

\* C14: the attempt counter starts at 0, never decreases, grows by exactly 1
\* with each read that returned the baseline and with nothing else, and no
\* sleep or read is started while it exceeds attempts.
C14_AttemptCounter ==
  /\ [](wpc = "idle" => i = 0)
  /\ [](i = EqualReads)
  /\ [][i' = i \/
          (/\ i' = i + 1
           /\ wpc = "read" /\ reads' = reads + 1
           /\ readLog'[reads'].ok
           /\ readLog'[reads'].val = contractValueBefore)]_vars
  /\ [](Watching => i <= attempts)
  /\ [](i <= attempts + 1)

C14_Witness ==
  /\ attempts = DefaultAttempts
  /\ i = DefaultAttempts
  /\ wpc = "read"
  /\ sleeps = DefaultAttempts + 1

\* C15: the timeout is not fatal: the step that reports it resolves the
\* watcher, installs the status interval and starts the final read with the
\* process running, as the step that reports a success does; the final
\* value is then read and the interval stays installed.
C15_TimeoutNotFatal ==
  /\ [][(outcome # "timeout" /\ outcome' = "timeout") =>
          /\ wpc' = "resolved"
          /\ pc' = "final"
          /\ id'
          /\ proc' = "running"]_vars
  /\ [][(outcome # "success" /\ outcome' = "success"
           /\ ToNumberOk(contractValueAfter')) =>
          /\ wpc' = "resolved"
          /\ pc' = "final"
          /\ id'
          /\ proc' = "running"]_vars
  /\ []((outcome = "timeout" /\ proc = "running") =>
          /\ id
          /\ wpc = "resolved"
          /\ pc \in { "final", "resolved", "rejected" }
          /\ (pc = "resolved" <=> finalValue # NoValue))

C15_Witness ==
  /\ outcome = "timeout"
  /\ pc = "resolved"
  /\ finalValue = BN(0, 105)
  /\ id
  /\ statusQueries >= 1
  /\ proc = "running"

\* the result is a result set whose first record has the terminal status
ExecutedFirst(r) ==
  r.ok /\ r.data # <<>> /\ r.data[1].status = "executed"

\* C16: the status interval has no attempt cap and is cleared only on the
\* terminal status: the step that handles any other result, or a failed
\* query, leaves the interval installed and the process running however
\* many came before, the next tick can then issue a query, and the end of
\* the watcher never clears the interval.
C16_NoAttemptCap ==
  /\ [][(id /\ ~ id') =>
          /\ reports' # reports
          /\ ExecutedFirst(lastResult')
          /\ proc' = "exit0"]_vars
  /\ [][(reports' # reports /\ ~ ExecutedFirst(lastResult')) =>
          /\ id'
          /\ proc' = "running"]_vars
  /\ []((id /\ proc = "running" /\ statusQueries < MaxQueries
           /\ Len(inflight) < MaxInflight) => ENABLED StatusTick)
  /\ [][(~ WatchEnded /\ WatchEnded') => (id => id')]_vars
  /\ [][(outcome' # outcome) => (id => id')]_vars

C16_Witness ==
  /\ Len(reports) = MaxQueries
  /\ \A k \in 1 .. Len(reports) : reports[k] # "executed"
  /\ reports[MaxQueries] = ErrorLine
  /\ reports[1] = NotIndexedLine
  /\ id
  /\ proc = "running"

\* C17: the baseline is the value read before the submission and stays as
\* it is from then on; every comparison of the loop is against it; and
\* neither the watcher's steps nor the status callback's change the
\* baseline, the hash or the other one's state.
C17_BaselineFrame ==
  /\ [][contractValueBefore' # contractValueBefore =>
          /\ pc = "readBefore" /\ pc' = "init"
          /\ contractValueBefore = NoValue
          /\ contractValueBefore' \in Values
          /\ submissions = 0 /\ destReads = 0]_vars
  /\ [](submissions > 0 => contractValueBefore \in Values)
  /\ [][txHash # NoHash => txHash' = txHash]_vars
  /\ [][(reads' = reads + 1 /\ readLog'[reads'].ok) =>
          /\ contractValueAfter' = readLog'[reads'].val
          /\ (outcome' = "success") <=>
               (readLog'[reads'].val # contractValueBefore)
          /\ (i' = i + 1) <=>
               (readLog'[reads'].val = contractValueBefore)]_vars
  /\ [][(reads' # reads \/ sleeps' # sleeps \/ i' # i) =>
          UNCHANGED << contractValueBefore, txHash, inflight,
                       statusQueries, reports, lastResult >>]_vars
  /\ [][(statusQueries' # statusQueries \/ reports' # reports
           \/ inflight' # inflight) =>
          UNCHANGED << contractValueBefore, txHash, watchVars,
                       finalValue, pc >>]_vars

C17_Witness ==
  /\ contractValueBefore = BN(0, 105)
  /\ Len(readLog) = 2
  /\ EqualRead(1)
  /\ readLog[2].ok /\ readLog[2].val = BN(0, 104)
  /\ outcome = "success"
  /\ reports # <<>>
  /\ txHash = "0x7f"

\* numbers of the status queries awaiting their response
Pending == { inflight[k].n : k \in 1 .. Len(inflight) }

\* C18 as stated: at most one status query is outstanding at any time, and
\* no query is still unanswered once a later one has been answered, so the
\* reports come in the order of the queries.
C18_Original ==
  /\ Len(inflight) <= 1
  /\ \A n \in Pending : \A m \in (n + 1) .. statusQueries : m \in Pending

\* C18 (amended): a tick issues a query whether or not earlier ones are
\* still unanswered, so several can be outstanding at once; each response
\* answers one outstanding query, whichever, and is reported when it
\* arrives, so the reports come in the order of the responses, which need
\* not be the order of the queries; every query is reported at most once.
C18_QueriesOverlap ==
  /\ [](statusQueries = Len(reports) + Len(inflight))
  /\ [](Cardinality(Pending) = Len(inflight)
          /\ Pending \subseteq 1 .. statusQueries)
  /\ []((id /\ proc = "running" /\ statusQueries < MaxQueries
           /\ Len(inflight) < MaxInflight) => ENABLED StatusTick)
  /\ [][statusQueries' # statusQueries =>
          /\ statusQueries' = statusQueries + 1
          /\ inflight' = Append(inflight, [n |-> statusQueries', hash |-> txHash])
          /\ reports' = reports]_vars
  /\ [][reports' # reports =>
          /\ Len(reports') = Len(reports) + 1
          /\ \E k \in 1 .. Len(inflight) : inflight' = RemoveAt(inflight, k)]_vars

C18_Witness ==
  /\ statusQueries = 2
  /\ Pending = { 1 }
  /\ Len(reports) = 1
  /\ proc = "running"

\* C19 as stated: after a success of the watcher, the final value reported
\* differs from the baseline and is the changed value the watcher saw.
C19_Original ==
  (outcome = "success" /\ finalValue # NoValue) =>
    /\ finalValue # contractValueBefore
    /\ finalValue = contractValueAfter

\* C19 (amended): after a success of the watcher, the final value reported
\* is what one further read of the destination returned, made once the
\* watcher had resolved; it is taken as read, whatever the watcher saw, so
\* it need not differ from the baseline nor equal the watcher's value.
C19_FinalValueSeparateRead ==
  /\ [](finalValue # NoValue =>
          /\ finalValue \in Values
          /\ wpc = "resolved" /\ pc = "resolved"
          /\ outcome \in { "success", "timeout" }
          /\ destReads = reads + 2)
  /\ [][finalValue' # finalValue =>
          /\ pc = "final" /\ pc' = "resolved"
          /\ finalValue = NoValue
          /\ destReads' = destReads + 1
          /\ UNCHANGED << watchVars, contractValueBefore >>]_vars

C19_Witness ==
  /\ outcome = "success"
  /\ contractValueBefore = BN(0, 104)
  /\ contractValueAfter = BN(0, 105)
  /\ finalValue = BN(0, 104)

\* no read of the destination has failed: the baseline read and the
\* watcher's reads succeeded, and so did the final read if it has settled
AllReadsOk ==
  /\ \A k \in 1 .. Len(readLog) : readLog[k].ok
  /\ ~ (pc = "rejected" /\ wpc = "resolved")

\* the modelled run has used up its status queries
QueriesSpent == statusQueries = MaxQueries /\ inflight = <<>>

\* C20 as stated: when the submission succeeds, every destination read
\* succeeds, timers fire and from some point on every status result has a
\* first record "executed", the process eventually exits with success,
\* whether the watcher reported success or timeout.
C20_Original ==
  ([]AllReadsOk
     /\ <>[][reports' # reports => ExecutedFirst(lastResult')]_vars) =>
    ((submissions = 1) ~> (proc = "exit0" \/ QueriesSpent))

====
